---- MODULE Spec2Model ----
(***************************************************************************)
(* Model of property-pipeline-ui: the derived-metrics enrichment of        *)
(* utils/data_processing.py and the listing store access layer of          *)
(* utils/database.py.                                                      *)
(*                                                                         *)
(* Six specifications share the module:                                    *)
(*   SpecEnrich     - enrich_dataframe applied (repeatedly) to an          *)
(*                    in-memory collection of listings drawn from a        *)
(*                    bounded input set;                                   *)
(*   Spec           - the store: the listings table, the                   *)
(*                    address_blacklist table and the functions of         *)
(*                    utils/database.py;                                   *)
(*   SpecCategorize - the categorizers of utils/data_processing.py;        *)
(*   SpecAnalyze    - get_properties_needing_enrichment;                   *)
(*   SpecJobs       - the external jobs started by the pages;              *)
(*   SpecRerun      - the script runs of the pages and their rerun flags.  *)
(***************************************************************************)
EXTENDS Integers, Sequences, FiniteSets, TLC

VARIABLES
    frame,      \* SpecEnrich: the caller's DataFrame object
    hist,       \* SpecEnrich: its successive contents <<L, enrich(L), ...>>
    listings,   \* Spec: rows of table listings, in rowid order
    blacklist,  \* Spec: addresses stored in table address_blacklist
    result,     \* Spec: what the last database call returned
    openConns,  \* Spec: connections opened and not closed
    runner,     \* SpecJobs: the page code that starts external jobs
    session     \* SpecRerun: st.session_state and the pending script run

vars ==
    <<frame, hist, listings, blacklist, result, openConns, runner, session>>

pages == <<runner, session>>

(***************************************************************************)
(* Cell values.  A float64 cell is an exact fraction n/d in lowest terms   *)
(* (the inputs below are chosen so that the double results are exact),     *)
(* NaN is the null of pandas, and "text" is a non-numeric string in an     *)
(* object column.                                                          *)
(***************************************************************************)
RECURSIVE GCD(_, _)
GCD(a, b) == IF b = 0 THEN a ELSE GCD(b, a % b)

Abs(x) == IF x < 0 THEN -x ELSE x

Num(n, d) ==
    LET g == GCD(Abs(n), d)
    IN  [k |-> "num", n |-> n \div g, d |-> d \div g]

NaN == [k |-> "nan", n |-> 0, d |-> 1]

Text == [k |-> "text", n |-> 0, d |-> 1]

\* Series.notna() / Series.isna()
notna(v) == v.k # "nan"

isna(v) == v.k = "nan"

\* Comparisons of a float column with a number: False on NaN.
Gt(a, b) == a.k = "num" /\ b.k = "num" /\ a.n * b.d > b.n * a.d

Lt(a, b) == a.k = "num" /\ b.k = "num" /\ a.n * b.d < b.n * a.d

Ge(a, b) == a.k = "num" /\ b.k = "num" /\ a.n * b.d >= b.n * a.d

Le(a, b) == a.k = "num" /\ b.k = "num" /\ a.n * b.d <= b.n * a.d

\* Float arithmetic: NaN propagates.
Mul(a, b) ==
    IF a.k = "num" /\ b.k = "num" THEN Num(a.n * b.n, a.d * b.d) ELSE NaN

\* Division, used by the code only under a mask that makes b > 0.
Div(a, b) ==
    IF a.k = "num" /\ b.k = "num" /\ b.n > 0
    THEN Num(a.n * b.d, a.d * b.n)
    ELSE NaN

Zero == Num(0, 1)

\* Faulty variant: errors='ignore', a value that is not a number is kept.
to_numeric_ignore(v) == v

\* pd.to_numeric(errors='coerce'): numbers stay, None/NaN and non-numeric
\* text become NaN.
to_numeric(v) == IF v.k = "num" THEN v ELSE NaN

(***************************************************************************)
(* A DataFrame: the set of its columns and the sequence of its rows (the   *)
(* RangeIndex 0..n-1 of a frame read from the store is position - 1).  A   *)
(* cell of a column the frame does not have is held at NaN / NoCategory.   *)
(***************************************************************************)
NoCategory == "<NA>"

RentRule == Num(8, 1000)

MonthsPerYear == Num(12, 1)

MapRows(rows, F(_)) == [i \in 1..Len(rows) |-> F(rows[i])]

(***************************************************************************)
(* utils/data_processing.py                                                *)
(***************************************************************************)

\* The float columns enrich_dataframe coerces (beds, baths and year_built
\* are coerced too and read by nothing below).
numeric_columns == {"price", "sqft", "estimated_rent", "price_per_sqft"}

HasCol(df, c) == c \in df.cols

\* lines 57-66: coerce the numeric columns that exist, create
\* estimated_rent and price_per_sqft (all NaN) when they do not.
CoerceNumeric(df) ==
    [cols |-> df.cols \cup {"estimated_rent", "price_per_sqft"},
     rows |-> MapRows(df.rows, LAMBDA r :
        [c \in DOMAIN r |->
            IF c \notin numeric_columns THEN r[c]
            ELSE IF HasCol(df, c) THEN to_numeric(r[c])
            ELSE IF c \in {"estimated_rent", "price_per_sqft"} THEN NaN
            ELSE r[c]])]

\* Faulty variant: price_per_sqft is only filled where it is missing.
PricePerSqftMask_fill_forward(r) ==
    isna(r.price_per_sqft) /\ notna(r.price) /\ notna(r.sqft) /\ Gt(r.sqft, Zero)

\* line 71: the mask of the price-per-sqft step of enrich_dataframe.
PricePerSqftMask(r) == notna(r.price) /\ notna(r.sqft) /\ Gt(r.sqft, Zero)

\* lines 70-72
FillPricePerSqft(df) ==
    IF HasCol(df, "price") /\ HasCol(df, "sqft")
    THEN [df EXCEPT !.rows = MapRows(@, LAMBDA r :
            IF PricePerSqftMask(r)
            THEN [r EXCEPT !.price_per_sqft = Div(r.price, r.sqft)]
            ELSE r)]
    ELSE df

\* Faulty variant: the rent_missing_mask is dropped (the 0.8% rule overwrites).
EstimatedRentMask_overwrite(r) == notna(r.price) /\ Gt(r.price, Zero)

\* Faulty variant: the price > 0 test of price_valid_mask is dropped.
EstimatedRentMask_any_price(r) == isna(r.estimated_rent) /\ notna(r.price)

\* lines 77-79: rent_missing_mask & price_valid_mask
EstimatedRentMask(r) ==
    isna(r.estimated_rent) /\ notna(r.price) /\ Gt(r.price, Zero)

\* lines 75-80
FillEstimatedRent(df) ==
    IF HasCol(df, "price")
    THEN [df EXCEPT !.rows = MapRows(@, LAMBDA r :
            IF EstimatedRentMask(r)
            THEN [r EXCEPT !.estimated_rent = Mul(r.price, RentRule)]
            ELSE r)]
    ELSE df

\* line 87
RentYieldMask(r) ==
    notna(r.estimated_rent) /\ notna(r.price) /\ Gt(r.price, Zero)

\* Faulty variant: the yield is the monthly rent over the price.
FillRentYield_monthly(df) ==
    IF HasCol(df, "estimated_rent") /\ HasCol(df, "price")
    THEN [cols |-> df.cols \cup {"rent_yield"},
          rows |-> MapRows(df.rows, LAMBDA r :
            IF notna(r.estimated_rent) /\ notna(r.price) /\ Gt(r.price, Zero)
            THEN [r EXCEPT !.rent_yield = Div(r.estimated_rent, r.price)]
            ELSE [r EXCEPT !.rent_yield =
                    IF HasCol(df, "rent_yield") THEN @ ELSE NaN])]
    ELSE df

\* lines 84-88: the column is created (all NaN) when missing, then set
\* under the mask from the estimated_rent the previous step left.
FillRentYield(df) ==
    IF HasCol(df, "estimated_rent") /\ HasCol(df, "price")
    THEN [cols |-> df.cols \cup {"rent_yield"},
          rows |-> MapRows(df.rows, LAMBDA r :
            IF RentYieldMask(r)
            THEN [r EXCEPT !.rent_yield =
                    Div(Mul(r.estimated_rent, MonthsPerYear), r.price)]
            ELSE [r EXCEPT !.rent_yield =
                    IF HasCol(df, "rent_yield") THEN @ ELSE NaN])]
    ELSE df

\* Faulty variant: the rent yield is computed before the estimated rent is filled.
enrich_dataframe_yield_first(df) ==
    FillEstimatedRent(FillRentYield(FillPricePerSqft(CoerceNumeric(df))))

\* lines 54-90
enrich_dataframe(df) ==
    FillRentYield(FillEstimatedRent(FillPricePerSqft(CoerceNumeric(df))))

\* lines 4-9: the standalone calculator (guarded by price > 0 and sqft > 0).
calculate_price_per_sqft(df) ==
    IF HasCol(df, "price") /\ HasCol(df, "sqft")
    THEN [cols |-> df.cols \cup {"price_per_sqft"},
          rows |-> MapRows(df.rows, LAMBDA r :
            IF Gt(r.price, Zero) /\ Gt(r.sqft, Zero)
            THEN [r EXCEPT !.price_per_sqft = Div(r.price, r.sqft)]
            ELSE r)]
    ELSE df

\* lines 11-16
calculate_rent_yield(df) ==
    IF HasCol(df, "price") /\ HasCol(df, "estimated_rent")
    THEN [cols |-> df.cols \cup {"rent_yield"},
          rows |-> MapRows(df.rows, LAMBDA r :
            IF Gt(r.price, Zero) /\ Gt(r.estimated_rent, Zero)
            THEN [r EXCEPT !.rent_yield =
                    Div(Mul(r.estimated_rent, MonthsPerYear), r.price)]
            ELSE r)]
    ELSE df

\* Faulty variant: right-closed bins, a boundary score falls into the
\* lower bin.
WalkScoreCategory_right_closed(v) ==
    IF Le(v, Num(25, 1)) THEN "Car-Dependent"
    ELSE IF Gt(v, Num(25, 1)) /\ Le(v, Num(50, 1)) THEN "Car-Dependent"
    ELSE IF Gt(v, Num(50, 1)) /\ Le(v, Num(70, 1)) THEN "Somewhat Walkable"
    ELSE IF Gt(v, Num(70, 1)) /\ Le(v, Num(90, 1)) THEN "Very Walkable"
    ELSE IF Gt(v, Num(90, 1)) THEN "Walker's Paradise"
    ELSE "Unknown"

\* lines 21-29: np.select takes the first condition that holds.
WalkScoreCategory(v) ==
    IF Lt(v, Num(25, 1)) THEN "Car-Dependent"
    ELSE IF Ge(v, Num(25, 1)) /\ Lt(v, Num(50, 1)) THEN "Car-Dependent"
    ELSE IF Ge(v, Num(50, 1)) /\ Lt(v, Num(70, 1)) THEN "Somewhat Walkable"
    ELSE IF Ge(v, Num(70, 1)) /\ Lt(v, Num(90, 1)) THEN "Very Walkable"
    ELSE IF Ge(v, Num(90, 1)) THEN "Walker's Paradise"
    ELSE "Unknown"

\* lines 18-30
categorize_walkscore(df) ==
    IF HasCol(df, "walk_score")
    THEN [cols |-> df.cols \cup {"walk_score_category"},
          rows |-> MapRows(df.rows, LAMBDA r :
            [r EXCEPT !.walk_score_category = WalkScoreCategory(r.walk_score)])]
    ELSE df

\* Faulty variant: a null yield falls through to the first label instead of
\* the default.
YieldCategory_null_very_low(v) ==
    IF ~Ge(v, Num(3, 100)) THEN "Very Low"
    ELSE IF Ge(v, Num(3, 100)) /\ Lt(v, Num(5, 100)) THEN "Low"
    ELSE IF Ge(v, Num(5, 100)) /\ Lt(v, Num(7, 100)) THEN "Average"
    ELSE IF Ge(v, Num(7, 100)) /\ Lt(v, Num(1, 10)) THEN "Good"
    ELSE IF Ge(v, Num(1, 10)) THEN "Excellent"
    ELSE "Unknown"

\* lines 35-43
YieldCategory(v) ==
    IF Lt(v, Num(3, 100)) THEN "Very Low"
    ELSE IF Ge(v, Num(3, 100)) /\ Lt(v, Num(5, 100)) THEN "Low"
    ELSE IF Ge(v, Num(5, 100)) /\ Lt(v, Num(7, 100)) THEN "Average"
    ELSE IF Ge(v, Num(7, 100)) /\ Lt(v, Num(1, 10)) THEN "Good"
    ELSE IF Ge(v, Num(1, 10)) THEN "Excellent"
    ELSE "Unknown"

\* lines 32-44
categorize_rent_yield(df) ==
    IF HasCol(df, "rent_yield")
    THEN [cols |-> df.cols \cup {"yield_category"},
          rows |-> MapRows(df.rows, LAMBDA r :
            [r EXCEPT !.yield_category = YieldCategory(r.rent_yield)])]
    ELSE df

\* lines 49-51: pd.cut with its default right=True: the bins are
\* (0, 250000], (250000, 500000], ..., (2000000, inf]; a value in no bin
\* (NaN, 0, negative) gets no category.
PriceCategory(v) ==
    IF Gt(v, Zero) /\ Le(v, Num(250000, 1)) THEN "<$250K"
    ELSE IF Gt(v, Num(250000, 1)) /\ Le(v, Num(500000, 1)) THEN "$250K-$500K"
    ELSE IF Gt(v, Num(500000, 1)) /\ Le(v, Num(750000, 1)) THEN "$500K-$750K"
    ELSE IF Gt(v, Num(750000, 1)) /\ Le(v, Num(1000000, 1)) THEN "$750K-$1M"
    ELSE IF Gt(v, Num(1000000, 1)) /\ Le(v, Num(1500000, 1)) THEN "$1M-$1.5M"
    ELSE IF Gt(v, Num(1500000, 1)) /\ Le(v, Num(2000000, 1)) THEN "$1.5M-$2M"
    ELSE IF Gt(v, Num(2000000, 1)) THEN "$2M+"
    ELSE NoCategory

\* lines 46-52
categorize_price(df) ==
    IF HasCol(df, "price")
    THEN [cols |-> df.cols \cup {"price_category"},
          rows |-> MapRows(df.rows, LAMBDA r :
            [r EXCEPT !.price_category = PriceCategory(r.price)])]
    ELSE df

(***************************************************************************)
(* SpecEnrich: enrich_dataframe on a collection of listings.               *)
(***************************************************************************)
MaxRows == 2

MaxEnrichCalls == 2

\* The columns of a frame read from the store that the enrichment reads or
\* writes (database.py lines 12-22), and of a raw collection that carries
\* no derived field yet.
StoreCols ==
    {"price", "sqft", "estimated_rent", "price_per_sqft", "rent_yield",
     "walk_score"}

RawCols == {"price", "sqft", "walk_score"}

PriceInputs == {NaN, Text, Num(0, 1), Num(-100000, 1), Num(500000, 1)}

SqftInputs == {NaN, Num(0, 1), Num(1000, 1)}

RawSqftInputs == SqftInputs \cup {Num(-1000, 1), Text}

RentInputs == {NaN, Num(2000, 1)}

\* Derived values persisted by an earlier job: <<price_per_sqft, rent_yield>>.
PersistedInputs == {<<NaN, NaN>>, <<Num(123, 1), Num(1, 2)>>}

WalkScoreInputs == {NaN}

Row(price, sqft, rent, pps, yield, walk) ==
    [price |-> price, sqft |-> sqft, estimated_rent |-> rent,
     price_per_sqft |-> pps, rent_yield |-> yield, walk_score |-> walk,
     walk_score_category |-> NoCategory, yield_category |-> NoCategory,
     price_category |-> NoCategory]

StoreRows ==
    {Row(p, s, e, d[1], d[2], w) :
        p \in PriceInputs, s \in SqftInputs, e \in RentInputs,
        d \in PersistedInputs, w \in WalkScoreInputs}

RawRows ==
    {Row(p, s, NaN, NaN, NaN, w) :
        p \in PriceInputs, s \in RawSqftInputs, w \in WalkScoreInputs}

\* The frames given to enrich_dataframe: up to MaxRows rows, read from the
\* store or raw.
IsInputFrame(f) ==
    \E m \in 0..MaxRows :
        \/ \E rs \in [1..m -> StoreRows] : f = [cols |-> StoreCols, rows |-> rs]
        \/ \E rs \in [1..m -> RawRows] : f = [cols |-> RawCols, rows |-> rs]

EmptyFrame == [cols |-> {}, rows |-> <<>>]

\* What a database call hands back: the rows of the DataFrame returned (or
\* the exception raised), the boolean returned by a write, and the SQL text
\* issued (the caller data spliced into it, and the bound parameters).
NoRows == <<>>

Outcome(op, arg, raised, rows, ret, sql) ==
    [op |-> op, arg |-> arg, raised |-> raised, rows |-> rows, ret |-> ret,
     sql |-> sql, caught |-> FALSE, cast_error |-> FALSE]

\* The same outcome of a call whose except clause caught an exception: the
\* handler prints it, so the flag is not part of what the caller receives
\* (cast_error: the exception came from the dtype cast of the rows read).
Caught(outcome, failed) == [outcome EXCEPT !.caught = failed]

NoSql == [cols |-> <<>>, limit |-> <<>>, params |-> <<>>]

NoResult == Outcome("none", <<>>, FALSE, NoRows, FALSE, NoSql)

\* No job has been started and no page has run.
RunnerIdle ==
    [pc |-> "idle", caller |-> "none", proc |-> "none", queue |-> <<>>,
     selected |-> <<>>, limit |-> 0, log |-> <<>>, presses |-> 0]

NoSession ==
    [page |-> "none", needs_refresh |-> FALSE, active_tab |-> "unset",
     edit |-> <<>>, pending |-> "none", trigger |-> "none", runs |-> 0,
     actions |-> 0, last |-> "none"]

PagesIdle ==
    /\ runner = RunnerIdle
    /\ session = NoSession

StoreIdle ==
    /\ listings = <<>>
    /\ blacklist = {}
    /\ result = NoResult
    /\ openConns = 0
    /\ PagesIdle

InitEnrich ==
    /\ IsInputFrame(frame)
    /\ hist = <<frame>>
    /\ StoreIdle

\* A page calls df = enrich_dataframe(df): the function changes the frame
\* it is given in place and returns that same object.
Enrich ==
    /\ Len(hist) <= MaxEnrichCalls
    /\ frame' = enrich_dataframe(frame)
    /\ hist' = Append(hist, frame')
    /\ UNCHANGED <<listings, blacklist, result, openConns, runner, session>>

NextEnrich == Enrich

SpecEnrich == InitEnrich /\ [][NextEnrich]_vars

(***************************************************************************)
(* Properties of enrich_dataframe (checked under SpecEnrich).              *)
(***************************************************************************)
\* The calls made so far: call j turned hist[j] into hist[j + 1].
Calls == 1..(Len(hist) - 1)

RowsOf(j) == 1..Len(hist[j].rows)

\* A cell is null when its column is missing or it holds NaN.
IsNull(f, i, c) == c \notin f.cols \/ f.rows[i][c].k = "nan"

GuardHolds(r) == Gt(r.price, Zero) /\ Gt(r.sqft, Zero)

\* C3: idempotence - a second enrich_dataframe on the result of the first
\* returns the same collection, field by field.
C3_Idempotent ==
    Len(hist) >= 3 => hist[3] = hist[2]

C3_Witness ==
    /\ Len(hist) >= 3
    /\ hist[2] # hist[1]
    /\ \E i \in RowsOf(1) :
        /\ hist[1].rows[i].estimated_rent = NaN
        /\ hist[2].rows[i].estimated_rent = Num(4000, 1)
        /\ hist[3].rows[i] = hist[2].rows[i]

\* C4: fill-forward never overwrites - a listing whose estimated_rent holds
\* a number before a call holds the same number after it, whatever its price.
C4_RentNotOverwritten ==
    \A j \in Calls : \A i \in RowsOf(j) :
        (~IsNull(hist[j], i, "estimated_rent")
            /\ hist[j].rows[i].estimated_rent.k = "num")
        => hist[j + 1].rows[i].estimated_rent = hist[j].rows[i].estimated_rent

C4_Witness ==
    /\ Len(hist) >= 2
    /\ \E i \in RowsOf(1) :
        /\ hist[1].rows[i].estimated_rent = Num(2000, 1)
        /\ hist[1].rows[i].price = Num(500000, 1)
        /\ hist[2].rows[i].estimated_rent = Num(2000, 1)

\* C5: a listing with null estimated_rent and price > 0 gets
\* estimated_rent = price * 0.008; with a null or non-positive price its
\* estimated_rent stays null.
C5_RentFilled ==
    \A j \in Calls : \A i \in RowsOf(j) :
        IsNull(hist[j], i, "estimated_rent") =>
            LET price == hist[j].rows[i].price
                after == hist[j + 1].rows[i].estimated_rent
            IN  IF Gt(price, Zero)
                THEN after = Num(price.n * 8, price.d * 1000)
                ELSE after = NaN

C5_Witness ==
    /\ Len(hist) >= 2
    /\ \E i, k \in RowsOf(1) :
        /\ IsNull(hist[1], i, "estimated_rent")
        /\ hist[1].rows[i].price = Num(500000, 1)
        /\ hist[2].rows[i].estimated_rent = Num(4000, 1)
        /\ IsNull(hist[1], k, "estimated_rent")
        /\ hist[1].rows[k].price = Num(0, 1)
        /\ hist[2].rows[k].estimated_rent = NaN

\* C6: a listing with sqft > 0 and price > 0 has price_per_sqft =
\* price / sqft after every call, whatever price_per_sqft held before.
C6_PricePerSqft ==
    \A j \in Calls : \A i \in RowsOf(j) :
        LET r == hist[j + 1].rows[i]
        IN  GuardHolds(r) =>
                r.price_per_sqft = Num(r.price.n * r.sqft.d, r.price.d * r.sqft.n)

C6_Witness ==
    /\ Len(hist) >= 3
    /\ \E i \in RowsOf(1) :
        /\ hist[1].rows[i].price = Num(500000, 1)
        /\ hist[1].rows[i].sqft = Num(1000, 1)
        /\ hist[1].rows[i].price_per_sqft = Num(123, 1)
        /\ hist[2].rows[i].price_per_sqft = Num(500, 1)
        /\ hist[3].rows[i].price_per_sqft = Num(500, 1)

\* C7: a listing failing the guard (price > 0 and sqft > 0) has a null
\* price_per_sqft after enrich_dataframe and is still in the output.
C7_GuardFailLeavesUnset ==
    \A j \in Calls :
        /\ Len(hist[j + 1].rows) = Len(hist[j].rows)
        /\ \A i \in RowsOf(j) :
            ~GuardHolds(hist[j].rows[i]) => IsNull(hist[j + 1], i, "price_per_sqft")

\* C8: a listing that after the call has a non-null estimated_rent and
\* price > 0 has rent_yield = (estimated_rent * 12) / price, with the
\* estimated_rent the same call filled in.
C8_RentYield ==
    \A j \in Calls : \A i \in RowsOf(j) :
        LET r == hist[j + 1].rows[i]
        IN  (r.estimated_rent.k = "num" /\ Gt(r.price, Zero)) =>
                r.rent_yield =
                    Num(r.estimated_rent.n * 12 * r.price.d,
                        r.estimated_rent.d * r.price.n)

C8_Witness ==
    /\ Len(hist) >= 2
    /\ \E i \in RowsOf(1) :
        /\ IsNull(hist[1], i, "estimated_rent")
        /\ hist[1].rows[i].price = Num(500000, 1)
        /\ hist[1].rows[i].rent_yield = Num(1, 2)
        /\ hist[2].rows[i].rent_yield = Num(96, 1000)

\* C9: the result of enrich_dataframe carries walk_score_category,
\* yield_category and price_category computed from the walk_score,
\* rent_yield and price of that result.
C9_CategoriesComputed ==
    \A j \in Calls : \A i \in RowsOf(j) :
        LET f == hist[j + 1]
        IN  /\ {"walk_score_category", "yield_category", "price_category"}
                \subseteq f.cols
            /\ f.rows[i].walk_score_category =
                    WalkScoreCategory(f.rows[i].walk_score)
            /\ f.rows[i].yield_category = YieldCategory(f.rows[i].rent_yield)
            /\ f.rows[i].price_category = PriceCategory(f.rows[i].price)

\* C10: price 500000, sqft 1000 and null estimated_rent give, after one
\* call, price_per_sqft 500, estimated_rent 4000, rent_yield 0.096,
\* yield_category "Good" and price_category "$250K-$500K".
C10_Scenario ==
    Len(hist) >= 2 =>
        \A i \in RowsOf(1) :
            (/\ hist[1].rows[i].price = Num(500000, 1)
             /\ hist[1].rows[i].sqft = Num(1000, 1)
             /\ IsNull(hist[1], i, "estimated_rent"))
            => /\ hist[2].rows[i].price_per_sqft = Num(500, 1)
               /\ hist[2].rows[i].estimated_rent = Num(4000, 1)
               /\ hist[2].rows[i].rent_yield = Num(96, 1000)
               /\ hist[2].rows[i].yield_category = "Good"
               /\ hist[2].rows[i].price_category = "$250K-$500K"

\* C21: side-effect freedom - the collection the caller passed holds after
\* the call, field by field, the values it held before.  `frame` is the
\* caller's object, hist[1] its content before the first call.
C21_InputUntouched ==
    Len(hist) >= 2 => frame = hist[1]

DerivedOfPrice == {"price_per_sqft", "estimated_rent", "rent_yield"}

\* C23: per-record failure - a listing whose price (or sqft) is not a
\* number has that field null after the call and every derived field of it
\* that was unset is still unset, the call returns every listing, and each
\* listing of the batch gets the values it gets when enriched alone.
C23_MalformedIsolated ==
    \A j \in Calls :
        /\ Len(hist[j + 1].rows) = Len(hist[j].rows)
        /\ \A i \in RowsOf(j) :
            LET before == hist[j].rows[i]
                after == hist[j + 1].rows[i]
                alone == [cols |-> hist[j].cols, rows |-> <<before>>]
            IN  /\ before.price.k = "text" =>
                    /\ after.price = NaN
                    /\ \A c \in DerivedOfPrice :
                        IsNull(hist[j], i, c) => IsNull(hist[j + 1], i, c)
                /\ before.sqft.k = "text" =>
                    /\ after.sqft = NaN
                    /\ IsNull(hist[j], i, "price_per_sqft")
                        => IsNull(hist[j + 1], i, "price_per_sqft")
                /\ after = enrich_dataframe(alone).rows[1]

\* A batch of a listing with a text price, left without derived values, and
\* a well-formed listing that got all three.
C23_Witness ==
    /\ Len(hist) >= 2
    /\ Len(hist[1].rows) = 2
    /\ hist[1].rows[1].price = Text
    /\ hist[2].rows[1].price = NaN
    /\ hist[2].rows[1].estimated_rent = NaN
    /\ hist[2].rows[1].rent_yield = NaN
    /\ hist[1].rows[2].price = Num(500000, 1)
    /\ hist[1].rows[2].sqft = Num(1000, 1)
    /\ hist[2].rows[2].price_per_sqft = Num(500, 1)
    /\ hist[2].rows[2].estimated_rent = Num(4000, 1)
    /\ hist[2].rows[2].rent_yield = Num(96, 1000)

\* C28: no stale yield - after enrich_dataframe on rows loaded from the
\* store, a listing with a non-null rent_yield has a non-null estimated_rent,
\* price > 0 and rent_yield = (estimated_rent * 12) / price, and a listing
\* whose price is null or <= 0 has rent_yield unset.
C28_NoStaleYield ==
    \A j \in Calls :
        hist[1].cols = StoreCols =>
            \A i \in RowsOf(j) :
                LET r == hist[j + 1].rows[i]
                IN  /\ notna(r.rent_yield) =>
                        /\ r.estimated_rent.k = "num"
                        /\ Gt(r.price, Zero)
                        /\ r.rent_yield =
                                Num(r.estimated_rent.n * 12 * r.price.d,
                                    r.estimated_rent.d * r.price.n)
                    /\ ~Gt(r.price, Zero) => isna(r.rent_yield)

(***************************************************************************)
(* utils/database.py: the store.                                           *)
(*                                                                         *)
(* A string is the sequence of its code points.  A row of table listings   *)
(* carries the columns the functions below read or write; a NULL is NaN.   *)
(* Table address_blacklist holds one row per address (the INSERT OR IGNORE *)
(* of add_to_blacklist relies on its uniqueness constraint).               *)
(***************************************************************************)
MaxListings == 2

MaxOpenConns == 1

\* SQLite's LOWER(): folds the ASCII letters only.
LowerChar(c) == IF c \in 65..90 THEN c + 32 ELSE c

LOWER(str) == [i \in 1..Len(str) |-> LowerChar(str[i])]

Addr7A == <<55, 65>>

Addr7a == <<55, 97>>

Addr9B == <<57, 66>>

\* The addresses given to add_to_blacklist and to remove_from_blacklist.
AddInputs == {Addr7a, Addr9B}

RemoveInputs == {Addr7A, Addr9B}

\* The rows the import job can insert; the third has a NULL price and a
\* NULL favorite.
ImportInputs ==
    { [address |-> Addr7A, price |-> Num(100000, 1), favorite |-> Num(0, 1),
       last_updated |-> 2],
      [address |-> Addr9B, price |-> Num(300000, 1), favorite |-> Num(1, 1),
       last_updated |-> 3],
      [address |-> Addr7A, price |-> NaN, favorite |-> NaN,
       last_updated |-> 1] }

\* The ids given to toggle_favorite: the first listing's, and one that no
\* listing has.
ListingIdInputs == {1, 9}

\* The listing columns a filter of the model can name (lines 59-69).
columns == {"id", "address", "price", "favorite", "last_updated"}

Init ==
    /\ frame = EmptyFrame
    /\ hist = <<>>
    /\ listings = <<>>
    /\ blacklist = {}
    /\ result = NoResult
    /\ openConns = 0
    /\ PagesIdle

\* The import job (an external script) inserts a listing; ids are assigned
\* in insertion order.
ImportListing ==
    /\ Len(listings) < MaxListings
    /\ \E r \in ImportInputs :
        listings' = Append(listings,
            [id |-> Len(listings) + 1, address |-> r.address,
             price |-> r.price, favorite |-> r.favorite,
             last_updated |-> r.last_updated])
    /\ UNCHANGED <<frame, hist, blacklist, result, openConns, runner, session>>

\* The LIMIT clause of get_all_listings (lines 24-25): appended when the
\* limit is truthy; a negative LIMIT is no limit in SQLite.
LimitInputs ==
    {[given |-> FALSE, n |-> 0]} \cup {[given |-> TRUE, n |-> k] : k \in 0..MaxListings}

HasLimitClause(limit) == limit.given /\ limit.n # 0

Head_n(rows, n) == [i \in 1..(IF n < Len(rows) THEN n ELSE Len(rows)) |-> rows[i]]

\* lines 28-46: pd.read_sql_query(..., dtype=...) casts price to float64 and
\* favorite to int64; a text in price or a NULL in favorite makes the cast
\* raise.
CastFails(rows) ==
    \E i \in 1..Len(rows) : rows[i].price.k = "text" \/ rows[i].favorite.k # "num"

\* lines 8-53
get_all_listings(limit, storeFails) ==
    LET selected == IF HasLimitClause(limit)
                    THEN Head_n(listings, limit.n)
                    ELSE listings
        failed == storeFails \/ CastFails(selected)
        sql == [cols |-> <<>>,
                limit |-> IF HasLimitClause(limit) THEN <<limit.n>> ELSE <<>>,
                params |-> <<>>]
    IN  /\ result' = [Caught(Outcome("get_all_listings", limit, FALSE,
                                     IF failed THEN NoRows ELSE selected,
                                     FALSE, sql), failed)
                        EXCEPT !.cast_error = ~storeFails /\ CastFails(selected)]
        \* line 10 opens the connection, lines 47 and 52 close it
        /\ openConns' = (openConns + 1) - 1
        /\ UNCHANGED <<frame, hist, listings, blacklist>>

GetAllListings ==
    /\ \E limit \in LimitInputs, storeFails \in BOOLEAN :
           get_all_listings(limit, storeFails)
    /\ UNCHANGED pages

\* A filter value (lines 82-94): a 2-tuple (min, max), the 1-tuple
\* ("IS NOT NULL",), the empty tuple, a longer tuple, or a scalar.
None == NaN

Str(chars) == [k |-> "text", n |-> 0, d |-> 1, s |-> chars]

Pair(min, max) == [shape |-> "pair", min |-> min, max |-> max, v |-> None]

NotNullTuple == [shape |-> "notnull", min |-> None, max |-> None, v |-> None]

EmptyTuple == [shape |-> "empty", min |-> None, max |-> None, v |-> None]

LongTuple == [shape |-> "long", min |-> None, max |-> None, v |-> None]

Scalar(v) == [shape |-> "scalar", min |-> None, max |-> None, v |-> v]

\* A filter key that is no column name but SQL text.
CraftedKey == "1=1 OR price"

FilterInputs ==
    { <<>>,
      << <<"price", Pair(Num(100000, 1), Num(300000, 1))>> >>,
      << <<"price", Pair(None, Num(200000, 1))>> >>,
      << <<"price", Pair(Num(200000, 1), None)>> >>,
      << <<"price", NotNullTuple>> >>,
      << <<"price", EmptyTuple>> >>,
      << <<"price", LongTuple>> >>,
      << <<"favorite", Scalar(Num(1, 1))>> >>,
      << <<"address", Scalar(Str(Addr7A))>> >>,
      << <<"bogus", Scalar(Num(1, 1))>> >>,
      << <<CraftedKey, Pair(Num(0, 1), None)>> >>,
      << <<"favorite", Scalar(Num(0, 1))>>,
         <<"price", Pair(Num(100000, 1), None)>> >> }

\* lines 81-94: the constraints appended to the query, one per bound of a
\* pair, one per "IS NOT NULL", one "= ?" for anything else.
ClausesOf(entry) ==
    LET key == entry[1]
        value == entry[2]
    IN  CASE value.shape = "pair" ->
                (IF value.min # None
                 THEN <<[key |-> key, op |-> ">=", param |-> value.min]>>
                 ELSE <<>>)
                \o (IF value.max # None
                    THEN <<[key |-> key, op |-> "<=", param |-> value.max]>>
                    ELSE <<>>)
          [] value.shape = "notnull" ->
                <<[key |-> key, op |-> "IS NOT NULL", param |-> None]>>
          [] value.shape = "long" ->
                <<[key |-> key, op |-> "=", param |-> value]>>
          [] OTHER ->
                <<[key |-> key, op |-> "=", param |-> value.v]>>

RECURSIVE BuildClauses(_)
BuildClauses(filters) ==
    IF filters = <<>> THEN <<>>
    ELSE ClausesOf(Head(filters)) \o BuildClauses(Tail(filters))

\* line 90: value[0] on an empty tuple raises IndexError, outside the try.
BuildRaises(filters) ==
    \E i \in 1..Len(filters) : filters[i][2].shape = "empty"

\* The value of a column of a row, as a cell.
CellOf(row, col) ==
    CASE col = "id" -> Num(row.id, 1)
      [] col = "last_updated" -> Num(row.last_updated, 1)
      [] col = "address" -> Str(row.address)
      [] OTHER -> row[col]

TextOf(cell) == IF "s" \in DOMAIN cell THEN cell.s ELSE <<78, 47, 65>>

\* memcmp order of two strings.
RECURSIVE StrLe(_, _)
StrLe(a, b) ==
    IF a = <<>> THEN TRUE
    ELSE IF b = <<>> THEN FALSE
    ELSE IF Head(a) # Head(b) THEN Head(a) < Head(b)
    ELSE StrLe(Tail(a), Tail(b))

\* Faulty variant: the bounds of a numeric range are exclusive.
SqlCompare_exclusive(op, cell, param) ==
    CASE op = "IS NOT NULL" -> cell.k # "nan"
      [] cell.k = "nan" \/ param.k = "nan" -> FALSE
      [] cell.k = "num" /\ param.k = "num" ->
            CASE op = ">=" -> Gt(cell, param)
              [] op = "<=" -> Lt(cell, param)
              [] OTHER -> cell = param
      [] cell.k = "num" -> op = "<="
      [] param.k = "num" -> op = ">="
      [] OTHER ->
            CASE op = ">=" -> StrLe(TextOf(param), TextOf(cell))
              [] op = "<=" -> StrLe(TextOf(cell), TextOf(param))
              [] OTHER -> TextOf(cell) = TextOf(param)

\* SQLite comparison: NULL compares to nothing, a number sorts before any
\* text, numbers by value, texts by memcmp.
SqlCompare(op, cell, param) ==
    CASE op = "IS NOT NULL" -> cell.k # "nan"
      [] cell.k = "nan" \/ param.k = "nan" -> FALSE
      [] cell.k = "num" /\ param.k = "num" ->
            CASE op = ">=" -> Ge(cell, param)
              [] op = "<=" -> Le(cell, param)
              [] OTHER -> cell = param
      [] cell.k = "num" -> op = "<="
      [] param.k = "num" -> op = ">="
      [] OTHER ->
            CASE op = ">=" -> StrLe(TextOf(param), TextOf(cell))
              [] op = "<=" -> StrLe(TextOf(cell), TextOf(param))
              [] OTHER -> TextOf(cell) = TextOf(param)

\* Faulty variant: the addresses are compared without LOWER().
NotBlacklisted_case_sensitive(row) ==
    ~\E b \in blacklist : row.address = b

\* lines 74-77: NOT EXISTS (SELECT 1 FROM address_blacklist b
\*                          WHERE LOWER(l.address) = LOWER(b.address))
NotBlacklisted(row) ==
    ~\E b \in blacklist : LOWER(row.address) = LOWER(b)

\* The column a clause compares: the key itself, or for the crafted key
\* the column its text ends with.
ClauseColumn(key) == IF key = CraftedKey THEN "price" ELSE key

\* The WHERE clause is "1=1 AND NOT EXISTS(...)" followed by " AND <key> <op> ?"
\* per constraint.  AND binds tighter than OR, so the text of CraftedKey
\* closes the conjunction built so far and starts a new disjunct.
RECURSIVE EvalWhere(_, _, _, _)
EvalWhere(row, clauses, done, cur) ==
    IF clauses = <<>> THEN done \/ cur
    ELSE LET c == Head(clauses)
             holds == SqlCompare(c.op, CellOf(row, ClauseColumn(c.key)), c.param)
         IN  IF c.key = CraftedKey
             THEN EvalWhere(row, Tail(clauses), done \/ cur, holds)
             ELSE EvalWhere(row, Tail(clauses), done, cur /\ holds)

Where(row, clauses) == EvalWhere(row, clauses, FALSE, NotBlacklisted(row))

\* The statement fails to prepare or bind: a key that is no column, or a
\* tuple bound as a parameter.
SqlError(clauses) ==
    \E i \in 1..Len(clauses) :
        \/ ClauseColumn(clauses[i].key) \notin columns
        \/ "shape" \in DOMAIN clauses[i].param

RECURSIVE SelectWhere(_, _)
SelectWhere(rows, clauses) ==
    IF rows = <<>> THEN <<>>
    ELSE (IF Where(Head(rows), clauses) THEN <<Head(rows)>> ELSE <<>>)
         \o SelectWhere(Tail(rows), clauses)

QueryText(clauses) ==
    [cols |-> [i \in 1..Len(clauses) |-> clauses[i].key],
     limit |-> <<>>,
     params |-> SelectSeq([i \in 1..Len(clauses) |-> clauses[i].param],
                          LAMBDA q : "shape" \in DOMAIN q \/ q.k # "nan")]

\* lines 55-104
get_filtered_listings(filters, storeFails) ==
    IF BuildRaises(filters)
    THEN \* the IndexError leaves the function with the connection open
         /\ openConns < MaxOpenConns
         /\ openConns' = openConns + 1
         /\ result' = Outcome("get_filtered_listings", filters, TRUE, NoRows,
                              FALSE, NoSql)
         /\ UNCHANGED <<frame, hist, listings, blacklist>>
    ELSE LET clauses == BuildClauses(filters)
             failed == storeFails \/ SqlError(clauses)
         IN  /\ result' = Caught(Outcome("get_filtered_listings", filters,
                            FALSE,
                            IF failed THEN NoRows
                            ELSE SelectWhere(listings, clauses),
                            FALSE, QueryText(clauses)), failed)
             \* line 57 opens the connection, lines 97 and 103 close it
             /\ openConns' = (openConns + 1) - 1
             /\ UNCHANGED <<frame, hist, listings, blacklist>>

GetFilteredListings ==
    /\ \E filters \in FilterInputs, storeFails \in BOOLEAN :
           get_filtered_listings(filters, storeFails)
    /\ UNCHANGED pages

\* lines 203-218: INSERT OR IGNORE; True when a row was inserted.
add_to_blacklist(address, storeFails) ==
    LET rowcount == IF address \in blacklist THEN 0 ELSE 1
    IN  /\ blacklist' = IF storeFails THEN blacklist ELSE blacklist \cup {address}
        /\ result' = Caught(Outcome("add_to_blacklist", address, FALSE, NoRows,
                                    ~storeFails /\ rowcount > 0, NoSql),
                            storeFails)
        \* line 205 opens the connection, line 218 closes it
        /\ openConns' = (openConns + 1) - 1
        /\ UNCHANGED <<frame, hist, listings>>

AddToBlacklist ==
    /\ \E address \in AddInputs, storeFails \in BOOLEAN :
           add_to_blacklist(address, storeFails)
    /\ UNCHANGED pages

\* Faulty variant: DELETE ... WHERE address = ?, without LOWER().
remove_from_blacklist_case_sensitive(address, storeFails) ==
    LET deleted == {b \in blacklist : b = address}
    IN  /\ blacklist' = IF storeFails THEN blacklist ELSE blacklist \ deleted
        /\ result' = Caught(Outcome("remove_from_blacklist", address, FALSE,
                                    NoRows,
                                    ~storeFails /\ Cardinality(deleted) > 0,
                                    NoSql), storeFails)
        /\ openConns' = (openConns + 1) - 1
        /\ UNCHANGED <<frame, hist, listings>>

\* lines 220-235: DELETE ... WHERE LOWER(address) = LOWER(?); True when a
\* row was deleted.
remove_from_blacklist(address, storeFails) ==
    LET deleted == {b \in blacklist : LOWER(b) = LOWER(address)}
    IN  /\ blacklist' = IF storeFails THEN blacklist ELSE blacklist \ deleted
        /\ result' = Caught(Outcome("remove_from_blacklist", address, FALSE,
                                    NoRows,
                                    ~storeFails /\ Cardinality(deleted) > 0,
                                    NoSql), storeFails)
        \* line 222 opens the connection, line 235 closes it
        /\ openConns' = (openConns + 1) - 1
        /\ UNCHANGED <<frame, hist, listings>>

RemoveFromBlacklist ==
    /\ \E address \in RemoveInputs, storeFails \in BOOLEAN :
           remove_from_blacklist(address, storeFails)
    /\ UNCHANGED pages

\* lines 237-273.  The value returned is cursor.rowcount > 0 read after the
\* SELECT of line 264, and the rowcount of a cursor that executed a SELECT
\* is -1.
toggle_favorite(listing_id, is_favorite, storeFails) ==
    LET exists == \E i \in 1..Len(listings) : listings[i].id = listing_id
        updated == [i \in 1..Len(listings) |->
                      IF listings[i].id = listing_id
                      THEN [listings[i] EXCEPT !.favorite =
                              IF is_favorite THEN Num(1, 1) ELSE Num(0, 1)]
                      ELSE listings[i]]
        rowcount == -1
    IN  /\ listings' = IF storeFails \/ ~exists THEN listings ELSE updated
        /\ result' = Caught(Outcome("toggle_favorite",
                                    <<listing_id, is_favorite>>, FALSE, NoRows,
                                    ~storeFails /\ exists /\ rowcount > 0,
                                    NoSql), storeFails)
        \* line 240 opens the connection, line 273 closes it
        /\ openConns' = (openConns + 1) - 1
        /\ UNCHANGED <<frame, hist, blacklist>>

ToggleFavorite ==
    /\ \E listing_id \in ListingIdInputs, is_favorite \in BOOLEAN,
          storeFails \in BOOLEAN :
           toggle_favorite(listing_id, is_favorite, storeFails)
    /\ UNCHANGED pages

RECURSIVE SumPrice(_)
SumPrice(rows) ==
    IF rows = <<>> THEN 0
    ELSE (IF Head(rows).price.k = "num" THEN Head(rows).price.n ELSE 0)
         + SumPrice(Tail(rows))

\* lines 112-119: COUNT(*) and AVG(price) over the non-NULL prices (NULL
\* when there is none); the prices stored are whole numbers.
SummaryStats ==
    LET priced == SelectSeq(listings, LAMBDA r : r.price.k = "num")
    IN  [total_count |-> Len(listings),
         avg_price |-> IF priced = <<>> THEN None
                       ELSE Num(SumPrice(priced), Len(priced))]

\* lines 106-172: no try and no conn.close().  The connection is left to
\* the interpreter: reclaimed with the frame on a normal return
\* (`finalized`) or not, and kept alive by the traceback when a query
\* raises.
get_summary_stats(storeFails, finalized) ==
    LET leaked == storeFails \/ ~finalized
    IN  /\ leaked => openConns < MaxOpenConns
        /\ openConns' = IF leaked THEN openConns + 1 ELSE (openConns + 1) - 1
        /\ result' = Outcome("get_summary_stats", <<>>, storeFails, NoRows,
                             IF storeFails THEN FALSE ELSE SummaryStats, NoSql)
        /\ UNCHANGED <<frame, hist, listings, blacklist>>

GetSummaryStats ==
    /\ \E storeFails \in BOOLEAN, finalized \in BOOLEAN :
           get_summary_stats(storeFails, finalized)
    /\ UNCHANGED pages

\* lines 174-188: the rows of address_blacklist (their ORDER BY
\* blacklisted_at is not kept: the table is a set of addresses here).
get_blacklisted_addresses(storeFails) ==
    /\ result' = Caught(Outcome("get_blacklisted_addresses", <<>>, FALSE,
                                NoRows,
                                IF storeFails THEN {} ELSE blacklist, NoSql),
                        storeFails)
    \* line 176 opens the connection, line 188 closes it
    /\ openConns' = (openConns + 1) - 1
    /\ UNCHANGED <<frame, hist, listings, blacklist>>

GetBlacklistedAddresses ==
    /\ \E storeFails \in BOOLEAN : get_blacklisted_addresses(storeFails)
    /\ UNCHANGED pages

CheckInputs == {Addr7A, Addr7a}

\* Faulty variant: the address is compared without LOWER().
is_address_blacklisted_case_sensitive(address, storeFails) ==
    /\ result' = Outcome("is_address_blacklisted", address, storeFails,
                         NoRows,
                         ~storeFails /\ address \in blacklist, NoSql)
    /\ openConns' = (openConns + 1) - 1
    /\ UNCHANGED <<frame, hist, listings, blacklist>>

\* lines 190-201: try/finally without except, a failing query raises.
is_address_blacklisted(address, storeFails) ==
    /\ result' = Outcome("is_address_blacklisted", address, storeFails,
                         NoRows,
                         ~storeFails
                            /\ \E b \in blacklist : LOWER(b) = LOWER(address),
                         NoSql)
    \* line 192 opens the connection, line 201 closes it
    /\ openConns' = (openConns + 1) - 1
    /\ UNCHANGED <<frame, hist, listings, blacklist>>

IsAddressBlacklisted ==
    /\ \E address \in CheckInputs, storeFails \in BOOLEAN :
           is_address_blacklisted(address, storeFails)
    /\ UNCHANGED pages

\* ORDER BY last_updated DESC, rows with the same value in rowid order.
RECURSIVE OrderByLastUpdatedDesc(_)
OrderByLastUpdatedDesc(rows) ==
    IF rows = <<>> THEN <<>>
    ELSE LET first == CHOOSE i \in 1..Len(rows) :
                        /\ \A j \in 1..Len(rows) :
                            rows[j].last_updated <= rows[i].last_updated
                        /\ \A j \in 1..(i - 1) :
                            rows[j].last_updated < rows[i].last_updated
         IN  <<rows[first]>>
             \o OrderByLastUpdatedDesc(
                    SelectSeq(rows, LAMBDA r : r.id # rows[first].id))

\* lines 275-289
get_favorites(storeFails) ==
    /\ result' = Caught(Outcome("get_favorites", <<>>, FALSE,
                                IF storeFails THEN NoRows
                                ELSE OrderByLastUpdatedDesc(
                                        SelectSeq(listings, LAMBDA r :
                                            r.favorite = Num(1, 1))),
                                FALSE, NoSql), storeFails)
    \* line 277 opens the connection, line 289 closes it
    /\ openConns' = (openConns + 1) - 1
    /\ UNCHANGED <<frame, hist, listings, blacklist>>

GetFavorites ==
    /\ \E storeFails \in BOOLEAN : get_favorites(storeFails)
    /\ UNCHANGED pages

Next ==
    \/ ImportListing
    \/ GetAllListings
    \/ GetFilteredListings
    \/ AddToBlacklist
    \/ RemoveFromBlacklist
    \/ ToggleFavorite
    \/ GetSummaryStats
    \/ GetBlacklistedAddresses
    \/ IsAddressBlacklisted
    \/ GetFavorites

Spec == Init /\ [][Next]_vars

(***************************************************************************)
(* Properties of the store (checked under Spec).                           *)
(***************************************************************************)
IsListingRead(r) == r.op \in {"get_all_listings", "get_filtered_listings"}

\* Two addresses are equal ignoring the case of their (ASCII) letters.
SameAddress(a, b) ==
    /\ Len(a) = Len(b)
    /\ \A i \in 1..Len(a) :
        (IF a[i] \in 65..90 THEN a[i] + 32 ELSE a[i])
            = (IF b[i] \in 65..90 THEN b[i] + 32 ELSE b[i])

\* C1: blacklist invariant - no row returned by get_all_listings or
\* get_filtered_listings has an address that equals, ignoring case, an
\* address of address_blacklist.
C1_BlacklistExcluded ==
    [][(IsListingRead(result') /\ UNCHANGED <<listings, blacklist>>) =>
        \A i \in 1..Len(result'.rows) : \A a \in blacklist :
            ~SameAddress(result'.rows[i].address, a)]_vars

FilterKeys(filters) == {filters[i][1] : i \in 1..Len(filters)}

ReadStep(op) == result'.op = op /\ UNCHANGED <<listings, blacklist>>

\* The listing is not blacklisted and its value lies in [min, max], a null
\* bound constraining nothing.
InRange(row, key, value) ==
    /\ \A a \in blacklist : ~SameAddress(row.address, a)
    /\ value.min # None => Ge(CellOf(row, key), value.min)
    /\ value.max # None => Le(CellOf(row, key), value.max)

\* C14: filter round trip - a get_filtered_listings with one (min, max) pair
\* on a listing column whose query succeeds returns exactly the listings
\* that are not blacklisted and whose value v has min <= v <= max, both ends
\* inclusive; a listing whose value is null is not returned when a bound is
\* given.
C14_RangeFilter ==
    [][(/\ ReadStep("get_filtered_listings")
        /\ ~result'.raised /\ ~result'.caught
        /\ Len(result'.arg) = 1
        /\ result'.arg[1][1] \in columns
        /\ result'.arg[1][2].shape = "pair") =>
            result'.rows =
                SelectSeq(listings, LAMBDA row :
                    InRange(row, result'.arg[1][1], result'.arg[1][2]))]_vars

\* The listing at 100000 is in range but blacklisted; the listing at 300000,
\* on the upper bound, is the one returned.
C14_Witness ==
    /\ result.op = "get_filtered_listings"
    /\ result.arg = << <<"price", Pair(Num(100000, 1), Num(300000, 1))>> >>
    /\ ~result.caught
    /\ Len(listings) = 2
    /\ listings[1].address = Addr7A /\ listings[1].price = Num(100000, 1)
    /\ listings[2].price = Num(300000, 1)
    /\ blacklist = {Addr7a}
    /\ result.rows = <<listings[2]>>

\* C15: injection safety - the SQL text of get_all_listings and
\* get_filtered_listings holds no caller data (no spliced limit), and every
\* column name in a generated constraint is one of the known listing
\* columns.
C15_InjectionSafe ==
    IsListingRead(result) =>
        /\ \A i \in 1..Len(result.sql.cols) : result.sql.cols[i] \in columns
        /\ result.sql.limit = <<>>

\* C16: structural anomalies surfaced - a read whose store query failed,
\* whose filter names an unknown field or whose filter value is malformed
\* ends in an error the caller receives, never in an empty collection.
C16_FailureSurfaced ==
    (/\ IsListingRead(result)
     /\ \/ result.caught
        \/ (result.op = "get_filtered_listings"
            /\ \E i \in 1..Len(result.arg) :
                \/ result.arg[i][1] \notin columns
                \/ result.arg[i][2].shape \in {"empty", "long"}))
    => result.raised

Min(a, b) == IF a < b THEN a ELSE b

\* C17: row cap - get_all_listings with limit n returns at most n rows,
\* exactly min(n, number of stored listings) when the query succeeds; with
\* no limit it returns every stored listing, and get_filtered_listings
\* without filters returns every listing that is not blacklisted.
C17_RowCap ==
    [][/\ ReadStep("get_all_listings") =>
            LET limit == result'.arg
            IN  /\ limit.given => Len(result'.rows) <= limit.n
                /\ (limit.given /\ ~result'.caught) =>
                        Len(result'.rows) = Min(limit.n, Len(listings))
                /\ (~limit.given /\ ~result'.caught) =>
                        result'.rows = listings
       /\ (ReadStep("get_filtered_listings") /\ result'.arg = <<>>
            /\ ~result'.caught) =>
                result'.rows =
                    SelectSeq(listings, LAMBDA row :
                        \A a \in blacklist : ~SameAddress(row.address, a))]_vars

\* C18: default-view recency - the rows get_all_listings returns under a
\* limit are the most recently updated ones: no listing left out was
\* updated later than a listing returned.
C18_MostRecent ==
    [][(ReadStep("get_all_listings") /\ result'.arg.given
            /\ ~result'.caught) =>
        \A i \in 1..Len(result'.rows) : \A j \in 1..Len(listings) :
            (\A k \in 1..Len(result'.rows) :
                result'.rows[k].id # listings[j].id)
            => result'.rows[i].last_updated >= listings[j].last_updated]_vars

\* C24: coercion on read - whenever the query of get_all_listings itself
\* runs, the call returns every stored listing up to the limit, also when a
\* row stores a NULL favorite or a text price, with price a float and
\* favorite the integer 0 or 1.
C24_CoercionOnRead ==
    [][(ReadStep("get_all_listings")
            /\ (~result'.caught \/ result'.cast_error)) =>
        LET limit == result'.arg
            expected == IF limit.given /\ limit.n < Len(listings)
                        THEN limit.n ELSE Len(listings)
        IN  /\ Len(result'.rows) = expected
            /\ \A i \in 1..Len(result'.rows) :
                /\ result'.rows[i].id = listings[i].id
                /\ result'.rows[i].price.k \in {"num", "nan"}
                /\ result'.rows[i].favorite \in {Num(0, 1), Num(1, 1)}]_vars

\* A step that is a call of toggle_favorite.
ToggleStep ==
    /\ result'.op = "toggle_favorite"
    /\ Len(listings') = Len(listings)
    /\ UNCHANGED blacklist

\* C26: toggle_favorite returns True iff a listing with the id exists and
\* its favorite was set to 1 or 0 as asked and committed; without such a
\* listing it returns False and changes nothing; no other listing and no
\* other field changes.
C26_ToggleReturn ==
    [][ToggleStep =>
        LET listing_id == result'.arg[1]
            flag == IF result'.arg[2] THEN Num(1, 1) ELSE Num(0, 1)
            found == {i \in 1..Len(listings) : listings[i].id = listing_id}
        IN  /\ result'.ret <=>
                    /\ found # {}
                    /\ ~result'.caught
                    /\ \A i \in found : listings'[i].favorite = flag
            /\ found = {} => (~result'.ret /\ listings' = listings)
            /\ \A i \in 1..Len(listings) :
                /\ i \notin found => listings'[i] = listings[i]
                /\ listings'[i] =
                    [listings[i] EXCEPT !.favorite = listings'[i].favorite]]_vars

\* C27: connection hygiene - after any sequence of calls of the database
\* module no connection is open.
C27_NoOpenConnection ==
    openConns = 0

\* C29: blacklist round trip, ignoring the case of ASCII letters.  A
\* completed add_to_blacklist leaves its address blacklisted;
\* is_address_blacklisted(B) is true exactly when an address equal to B
\* ignoring case is blacklisted; remove_from_blacklist(B) returns True when
\* it completes and such an address was there, and then none is left; it
\* returns False and changes nothing when there was none; an unfiltered
\* get_filtered_listings returns exactly the listings whose address is not
\* blacklisted.
C29_BlacklistRoundTrip ==
    [][/\ (result'.op = "add_to_blacklist" /\ UNCHANGED listings
            /\ ~result'.caught) =>
                result'.arg \in blacklist'
       /\ (ReadStep("is_address_blacklisted") /\ ~result'.raised) =>
                (result'.ret <=>
                    \E a \in blacklist : SameAddress(a, result'.arg))
       /\ (result'.op = "remove_from_blacklist" /\ UNCHANGED listings) =>
            LET there == {a \in blacklist : SameAddress(a, result'.arg)}
            IN  /\ (there # {} /\ ~result'.caught) => result'.ret
                /\ result'.ret => blacklist' = blacklist \ there
                /\ there = {} => (~result'.ret /\ blacklist' = blacklist)
       /\ (ReadStep("get_filtered_listings") /\ result'.arg = <<>>
            /\ ~result'.caught) =>
                \A i \in 1..Len(listings) :
                    (\E k \in 1..Len(result'.rows) :
                        result'.rows[k] = listings[i])
                    <=> ~\E a \in blacklist :
                            SameAddress(a, listings[i].address)]_vars

\* "7a" was blacklisted, hid listing "7A", and was removed again under the
\* name "7A".
C29_Witness ==
    /\ result.op = "remove_from_blacklist"
    /\ result.arg = Addr7A
    /\ result.ret
    /\ blacklist = {}
    /\ \E i \in 1..Len(listings) : listings[i].address = Addr7A

(***************************************************************************)
(* SpecCategorize: the three categorizers applied to a collection whose    *)
(* values sit on and around the bin boundaries.                            *)
(***************************************************************************)
\* <<price, rent_yield, walk_score>> of a listing.
CategoryInputs ==
    { <<NaN, NaN, NaN>>,
      <<Num(0, 1), Num(-1, 100), Num(0, 1)>>,
      <<Num(-100000, 1), Num(29, 1000), Num(25, 1)>>,
      <<Num(250000, 1), Num(3, 100), Num(49999, 1000)>>,
      <<Num(250001, 1), Num(5, 100), Num(50, 1)>>,
      <<Num(500000, 1), Num(7, 100), Num(70, 1)>>,
      <<Num(1999999, 1), Num(99, 1000), Num(89, 1)>>,
      <<Num(2000000, 1), Num(1, 10), Num(90, 1)>>,
      <<Num(2000001, 1), Num(1, 2), Num(100, 1)>> }

CategoryRows == {Row(t[1], NaN, NaN, NaN, t[2], t[3]) : t \in CategoryInputs}

InitCategorize ==
    /\ \E m \in 0..MaxRows : \E rs \in [1..m -> CategoryRows] :
        frame = [cols |-> StoreCols, rows |-> rs]
    /\ hist = <<frame>>
    /\ StoreIdle

\* df = categorize_walkscore(df): the column is assigned in place.
CategorizeWalkscore ==
    /\ frame' = categorize_walkscore(frame)
    /\ UNCHANGED <<hist, listings, blacklist, result, openConns, runner,
                   session>>

CategorizeRentYield ==
    /\ frame' = categorize_rent_yield(frame)
    /\ UNCHANGED <<hist, listings, blacklist, result, openConns, runner,
                   session>>

CategorizePrice ==
    /\ frame' = categorize_price(frame)
    /\ UNCHANGED <<hist, listings, blacklist, result, openConns, runner,
                   session>>

NextCategorize ==
    \/ CategorizeWalkscore
    \/ CategorizeRentYield
    \/ CategorizePrice

SpecCategorize == InitCategorize /\ [][NextCategorize]_vars

(***************************************************************************)
(* Properties of the categorizers (checked under SpecCategorize).          *)
(***************************************************************************)
FrameRows == 1..Len(frame.rows)

\* The label of the left-closed, right-open bucket a price >= 0 lies in.
LeftClosedPriceLabel(v) ==
    IF Lt(v, Num(250000, 1)) THEN "<$250K"
    ELSE IF Lt(v, Num(500000, 1)) THEN "$250K-$500K"
    ELSE IF Lt(v, Num(750000, 1)) THEN "$500K-$750K"
    ELSE IF Lt(v, Num(1000000, 1)) THEN "$750K-$1M"
    ELSE IF Lt(v, Num(1500000, 1)) THEN "$1M-$1.5M"
    ELSE IF Lt(v, Num(2000000, 1)) THEN "$1.5M-$2M"
    ELSE "$2M+"

\* C11: after categorize_price every listing with a price >= 0 carries the
\* label of the left-closed, right-open bucket its price lies in (a price on
\* a boundary gets the upper bucket's label, 0 gets "<$250K"), and a listing
\* with a null price carries no category.
C11_LeftClosedBuckets ==
    "price_category" \in frame.cols =>
        \A i \in FrameRows :
            LET p == frame.rows[i].price
                c == frame.rows[i].price_category
            IN  /\ isna(p) => c = NoCategory
                /\ Ge(p, Zero) => c = LeftClosedPriceLabel(p)

\* C12: after categorize_walkscore every listing carries exactly the label
\* of its half-open bin: below 50 "Car-Dependent", [50, 70) "Somewhat
\* Walkable", [70, 90) "Very Walkable", 90 and above "Walker's Paradise",
\* null "Unknown".
C12_WalkScoreBins ==
    "walk_score_category" \in frame.cols =>
        \A i \in FrameRows :
            LET w == frame.rows[i].walk_score
                c == frame.rows[i].walk_score_category
            IN  /\ isna(w) <=> c = "Unknown"
                /\ Lt(w, Num(50, 1)) <=> c = "Car-Dependent"
                /\ (Ge(w, Num(50, 1)) /\ Lt(w, Num(70, 1)))
                    <=> c = "Somewhat Walkable"
                /\ (Ge(w, Num(70, 1)) /\ Lt(w, Num(90, 1)))
                    <=> c = "Very Walkable"
                /\ Ge(w, Num(90, 1)) <=> c = "Walker's Paradise"

C12_Witness ==
    /\ "walk_score_category" \in frame.cols
    /\ \E i, j \in FrameRows :
        /\ frame.rows[i].walk_score = Num(50, 1)
        /\ frame.rows[i].walk_score_category = "Somewhat Walkable"
        /\ frame.rows[j].walk_score = Num(49999, 1000)
        /\ frame.rows[j].walk_score_category = "Car-Dependent"

\* C13: after categorize_rent_yield every listing carries exactly the label
\* of its bin: below 0.03 "Very Low", [0.03, 0.05) "Low", [0.05, 0.07)
\* "Average", [0.07, 0.10) "Good", 0.10 and above "Excellent", null
\* "Unknown"; a yield on a boundary carries the upper bin's label.
C13_YieldBins ==
    "yield_category" \in frame.cols =>
        \A i \in FrameRows :
            LET y == frame.rows[i].rent_yield
                c == frame.rows[i].yield_category
            IN  /\ isna(y) <=> c = "Unknown"
                /\ Lt(y, Num(3, 100)) <=> c = "Very Low"
                /\ (Ge(y, Num(3, 100)) /\ Lt(y, Num(5, 100))) <=> c = "Low"
                /\ (Ge(y, Num(5, 100)) /\ Lt(y, Num(7, 100))) <=> c = "Average"
                /\ (Ge(y, Num(7, 100)) /\ Lt(y, Num(1, 10))) <=> c = "Good"
                /\ Ge(y, Num(1, 10)) <=> c = "Excellent"

C13_Witness ==
    /\ "yield_category" \in frame.cols
    /\ \E i, j \in FrameRows :
        /\ frame.rows[i].rent_yield = Num(3, 100)
        /\ frame.rows[i].yield_category = "Low"
        /\ frame.rows[j].rent_yield = NaN
        /\ frame.rows[j].yield_category = "Unknown"


(***************************************************************************)
(* SpecAnalyze: get_properties_needing_enrichment on a collection.         *)
(***************************************************************************)
\* The columns get_properties_needing_enrichment and its callers read.
NeedCols ==
    {"walk_score", "transit_score", "bike_score", "mls_number", "mls_type",
     "tax_information", "estimated_monthly_cashflow"}

NeedRow(walk, transit, bike, number, type, tax, cashflow) ==
    [walk_score |-> walk, transit_score |-> transit, bike_score |-> bike,
     mls_number |-> number, mls_type |-> type, tax_information |-> tax,
     estimated_monthly_cashflow |-> cashflow]

Score == Num(80, 1)

\* Listings with nothing missing, everything missing, and each field (and
\* both MLS fields) missing on its own.
NeedRows ==
    { NeedRow(Score, Score, Score, Text, Text, Text, Num(150, 1)),
      NeedRow(NaN, NaN, NaN, NaN, NaN, NaN, NaN),
      NeedRow(NaN, Score, Score, Text, Text, Text, Num(150, 1)),
      NeedRow(Score, NaN, Score, Text, Text, Text, Num(150, 1)),
      NeedRow(Score, Score, NaN, Text, Text, Text, Num(150, 1)),
      NeedRow(Score, Score, Score, NaN, Text, Text, Num(150, 1)),
      NeedRow(Score, Score, Score, Text, NaN, Text, Num(150, 1)),
      NeedRow(Score, Score, Score, NaN, NaN, Text, Num(150, 1)),
      NeedRow(Score, Score, Score, Text, Text, NaN, Num(150, 1)),
      NeedRow(Score, Score, Score, Text, Text, Text, NaN) }

\* The same listings in a collection that has no estimated_monthly_cashflow
\* column.
NeedRowsNoCashflow ==
    {[r EXCEPT !.estimated_monthly_cashflow = NaN] : r \in NeedRows}

\* df[mask]: the rows the mask selects, each once, under their index labels.
Mask(df, P(_)) ==
    SelectSeq([i \in 1..Len(df.rows) |-> [index |-> i, row |-> df.rows[i]]],
              LAMBDA e : P(e.row))

\* Faulty variant: the two MLS selections are concatenated, so a listing
\* with both fields null is taken twice.
MlsMissing_concat(df) ==
    Mask(df, LAMBDA r : isna(r.mls_number))
        \o Mask(df, LAMBDA r : isna(r.mls_type))

\* lines 116-117
MlsMissing(df) ==
    Mask(df, LAMBDA r : isna(r.mls_number) \/ isna(r.mls_type))

\* lines 124-129: without the column, df.copy().
CashflowMissing(df) ==
    IF HasCol(df, "estimated_monthly_cashflow")
    THEN Mask(df, LAMBDA r : isna(r.estimated_monthly_cashflow))
    ELSE Mask(df, LAMBDA r : TRUE)

\* lines 111-136: the dictionary returned.
get_properties_needing_enrichment(df) ==
    [walkscore_missing |-> Mask(df, LAMBDA r : isna(r.walk_score)),
     mls_missing |-> MlsMissing(df),
     tax_missing |-> Mask(df, LAMBDA r : isna(r.tax_information)),
     cashflow_missing |-> CashflowMissing(df)]

InitAnalyze ==
    /\ \E m \in 0..MaxRows :
        \/ \E rs \in [1..m -> NeedRows] : frame = [cols |-> NeedCols, rows |-> rs]
        \/ \E rs \in [1..m -> NeedRowsNoCashflow] :
            frame = [cols |-> NeedCols \ {"estimated_monthly_cashflow"},
                     rows |-> rs]
    /\ hist = <<>>
    /\ StoreIdle

\* enrichment_needed = get_properties_needing_enrichment(df)
Analyze ==
    /\ result' = [op |-> "get_properties_needing_enrichment",
                  ret |-> get_properties_needing_enrichment(frame)]
    /\ UNCHANGED <<frame, hist, listings, blacklist, openConns, runner,
                   session>>

NextAnalyze == Analyze

SpecAnalyze == InitAnalyze /\ [][NextAnalyze]_vars

(***************************************************************************)
(* Properties of get_properties_needing_enrichment (under SpecAnalyze).    *)
(***************************************************************************)
Analyzed == result.op = "get_properties_needing_enrichment"

\* The subset holds exactly the rows of the frame, under their own index,
\* whose column `c` is null, in the order of the frame.
IsNullSubset(subset, c) ==
    subset = SelectSeq([i \in 1..Len(frame.rows) |->
                            [index |-> i, row |-> frame.rows[i]]],
                       LAMBDA e : IsNull(frame, e.index, c))

\* C19: get_properties_needing_enrichment returns all six subsets, and the
\* walkscore, tax, cashflow, transit and bike subsets are exactly the
\* listings whose walk_score, tax_information, estimated_monthly_cashflow,
\* transit_score and bike_score is null.
C19_SixSubsets ==
    Analyzed =>
        /\ {"walkscore_missing", "mls_missing", "tax_missing",
            "cashflow_missing", "transit_missing", "bike_missing"}
                \subseteq DOMAIN result.ret
        /\ IsNullSubset(result.ret.walkscore_missing, "walk_score")
        /\ IsNullSubset(result.ret.tax_missing, "tax_information")
        /\ IsNullSubset(result.ret.cashflow_missing,
                        "estimated_monthly_cashflow")
        /\ IsNullSubset(result.ret.transit_missing, "transit_score")
        /\ IsNullSubset(result.ret.bike_missing, "bike_score")

\* C20: a listing is in the mls-missing subset iff its mls_number or its
\* mls_type is null, and it is there exactly once, also when both are null.
C20_MlsUnion ==
    Analyzed =>
        LET subset == result.ret.mls_missing
        IN  /\ \A i \in FrameRows :
                (isna(frame.rows[i].mls_number) \/ isna(frame.rows[i].mls_type))
                <=> Cardinality({k \in 1..Len(subset) : subset[k].index = i}) = 1
            /\ \A k \in 1..Len(subset) :
                /\ subset[k].index \in FrameRows
                /\ subset[k].row = frame.rows[subset[k].index]

\* One listing with both MLS fields null and one with only mls_type null:
\* both are in the subset, once each.
C20_Witness ==
    /\ Analyzed
    /\ Len(frame.rows) = 2
    /\ isna(frame.rows[1].mls_number) /\ isna(frame.rows[1].mls_type)
    /\ notna(frame.rows[2].mls_number) /\ isna(frame.rows[2].mls_type)
    /\ Len(result.ret.mls_missing) = 2
    /\ result.ret.mls_missing[1].index = 1
    /\ result.ret.mls_missing[2].index = 2


(***************************************************************************)
(* SpecJobs: external jobs started by the pages - one invocation of        *)
(* run_script per job (utils/script_runner.py), one per address in the     *)
(* WalkScore Enrichment tab (pages/03_Data_Enrichment.py), and the         *)
(* show_history call of pages/02_Property_Explorer.py.                     *)
(***************************************************************************)
MaxPresses == 1

\* The wrappers of script_runner.py lines 25-102, each a call of run_script.
JobKinds == {"gmail", "compass", "cashflow", "init_db", "cashflow_analyzer"}

\* What the started process does: exit with code 0, exit with another code,
\* never exit; "raises": subprocess.run itself raises (no process).
Behaviours == {"exit0", "exit1", "hangs", "raises"}

\* subprocess.run is given timeout=30 by show_history
\* (02_Property_Explorer.py line 74) and no timeout by run_script
\* (script_runner.py lines 13-17).
HasTimeout(caller) == caller = "show_history"

DispatchCols == NeedCols \cup {"address"}

DispatchRow(address, walk, transit, bike) ==
    [address |-> address, walk_score |-> walk, transit_score |-> transit,
     bike_score |-> bike, mls_number |-> Text, mls_type |-> Text,
     tax_information |-> Text, estimated_monthly_cashflow |-> Num(150, 1)]

DispatchRows ==
    {DispatchRow(a, t[1], t[2], t[3]) :
        a \in {Addr7A, Addr9B},
        t \in {<<NaN, NaN, NaN>>, <<Score, NaN, Score>>,
               <<Score, Score, Score>>}}

\* The rows of a frame at the positions of `I`, in frame order.
RowsAt(df, I) ==
    SelectSeq([i \in 1..Len(df.rows) |-> [index |-> i, row |-> df.rows[i]]],
              LAMBDA e : e.index \in I)

AddressesOf(entries) == [k \in 1..Len(entries) |-> entries[k].row.address]

\* drop_duplicates(subset=['address']): the first row of each address stays.
RECURSIVE DropDuplicates(_)
DropDuplicates(addresses) ==
    IF addresses = <<>> THEN <<>>
    ELSE LET front == DropDuplicates(SubSeq(addresses, 1, Len(addresses) - 1))
             last == addresses[Len(addresses)]
         IN  IF \E k \in 1..Len(front) : front[k] = last
             THEN front ELSE Append(front, last)

\* 03_Data_Enrichment.py lines 401-416: the addresses the button processes,
\* or the KeyError of reading a subset the analyzer does not return.
AddressesToProcess(df, selected_addresses, limit) ==
    IF selected_addresses # <<>>
    THEN [raised |-> FALSE, addresses |-> selected_addresses]
    ELSE LET enrichment_needed == get_properties_needing_enrichment(df)
         IN  IF {"walkscore_missing", "transit_missing", "bike_missing"}
                    \subseteq DOMAIN enrichment_needed
             THEN [raised |-> FALSE,
                   addresses |->
                     Head_n(DropDuplicates(
                                AddressesOf(enrichment_needed["walkscore_missing"]
                                    \o enrichment_needed["transit_missing"]
                                    \o enrichment_needed["bike_missing"])),
                            limit)]
             ELSE [raised |-> TRUE, addresses |-> <<>>]

InitJobs ==
    /\ \E m \in 1..MaxRows : \E rs \in [1..m -> DispatchRows] :
        frame = [cols |-> DispatchCols, rows |-> rs]
    /\ hist = <<>>
    /\ listings = <<>>
    /\ blacklist = {}
    /\ result = NoResult
    /\ openConns = 0
    /\ PagesIdle

CanPress == runner.pc \in {"idle", "done", "error"} /\ runner.presses < MaxPresses

\* "Run WalkScore Enrichment" pressed with the rows at `I` ticked.  The
\* KeyError is caught by the except of line 463, which ends the handler.
PressRunWalkScore ==
    /\ CanPress
    /\ \E I \in SUBSET (1..Len(frame.rows)), limit \in 1..MaxRows :
        LET selected == AddressesOf(RowsAt(frame, I))
            todo == AddressesToProcess(frame, selected, limit)
        IN  runner' = [pc |-> IF todo.raised THEN "error"
                              ELSE IF todo.addresses = <<>> THEN "done"
                              ELSE "dispatch",
                       caller |-> "walkscore", proc |-> "none",
                       queue |-> todo.addresses, selected |-> selected,
                       limit |-> limit, log |-> <<>>,
                       presses |-> runner.presses + 1]
    /\ UNCHANGED <<frame, hist, listings, blacklist, result, openConns, session>>

\* What follows the end of one invocation: the next address of the loop of
\* lines 419-457, or the end of the handler.
AfterInvocation(r, outcome) ==
    LET entry == [job |-> r.caller,
                  address |-> IF r.queue = <<>> THEN <<>> ELSE Head(r.queue),
                  outcome |-> outcome]
        rest == IF r.queue = <<>> THEN <<>> ELSE Tail(r.queue)
    IN  [r EXCEPT !.pc = IF rest = <<>> THEN "done" ELSE "dispatch",
                  !.proc = "none", !.queue = rest,
                  !.log = Append(r.log, entry)]

\* subprocess.run(cmd, ...): the process is started and the caller waits
\* for it, or the call raises at once.
StartProcess(r, behaviour) ==
    IF behaviour = "raises" THEN AfterInvocation(r, "exception")
    ELSE [r EXCEPT !.pc = "running", !.proc = behaviour]

\* lines 419-433: run_walkscore_enrichment for the next address; the except
\* of line 456 takes an exception and the loop goes on.
InvokeNext ==
    /\ runner.pc = "dispatch"
    /\ \E behaviour \in Behaviours : runner' = StartProcess(runner, behaviour)
    /\ UNCHANGED <<frame, hist, listings, blacklist, result, openConns, session>>

\* A page starts one of the other jobs through run_script.
RunJob ==
    /\ CanPress
    /\ \E kind \in JobKinds, behaviour \in Behaviours :
        runner' = StartProcess([RunnerIdle EXCEPT !.caller = kind,
                                    !.presses = runner.presses + 1],
                               behaviour)
    /\ UNCHANGED <<frame, hist, listings, blacklist, result, openConns, session>>

\* 02_Property_Explorer.py lines 65-81
ShowHistory ==
    /\ CanPress
    /\ \E behaviour \in Behaviours :
        runner' = StartProcess([RunnerIdle EXCEPT !.caller = "show_history",
                                    !.presses = runner.presses + 1],
                               behaviour)
    /\ UNCHANGED <<frame, hist, listings, blacklist, result, openConns, session>>

\* The process exits and subprocess.run returns its return code.
ProcessExits ==
    /\ runner.pc = "running"
    /\ runner.proc \in {"exit0", "exit1"}
    /\ runner' = AfterInvocation(runner, runner.proc)
    /\ UNCHANGED <<frame, hist, listings, blacklist, result, openConns, session>>

\* subprocess.run raises TimeoutExpired, where a timeout was given.
TimeoutExpires ==
    /\ runner.pc = "running"
    /\ HasTimeout(runner.caller)
    /\ runner' = AfterInvocation(runner, "timeout")
    /\ UNCHANGED <<frame, hist, listings, blacklist, result, openConns, session>>

NextJobs ==
    \/ PressRunWalkScore
    \/ InvokeNext
    \/ RunJob
    \/ ShowHistory
    \/ ProcessExits
    \/ TimeoutExpires

\* A process that exits does so, a timeout that was set fires, and the page
\* code goes on to its next statement.
SpecJobs ==
    /\ InitJobs
    /\ [][NextJobs]_vars
    /\ WF_vars(InvokeNext)
    /\ WF_vars(ProcessExits)
    /\ WF_vars(TimeoutExpires)

(***************************************************************************)
(* Properties of job invocation (checked under SpecJobs).                  *)
(***************************************************************************)
\* C22: bounded job invocation - a job that was started returns an outcome
\* to its caller, also when its process never exits.
C22_JobReturns ==
    (runner.pc = "running") ~> (runner.pc # "running")

\* The addresses, in frame order and each once, of the listings that lack
\* walk_score, transit_score or bike_score.
LackingAddresses ==
    DropDuplicates(AddressesOf(
        SelectSeq([i \in 1..Len(frame.rows) |-> [row |-> frame.rows[i]]],
                  LAMBDA e : \/ isna(e.row.walk_score)
                             \/ isna(e.row.transit_score)
                             \/ isna(e.row.bike_score))))

\* C25: WalkScore dispatch - when the button was pressed with no row
\* selected and some listing lacks a score, the handler, once it has ended,
\* has invoked the job once for each of the first `limit` distinct addresses
\* of those listings, in order, whatever the outcomes of the invocations.
C25_WalkScoreDispatch ==
    (/\ runner.caller = "walkscore"
     /\ runner.pc \in {"done", "error"}
     /\ runner.selected = <<>>
     /\ LackingAddresses # <<>>)
    => [k \in 1..Len(runner.log) |-> runner.log[k].address]
            = Head_n(LackingAddresses, runner.limit)


(***************************************************************************)
(* SpecRerun: the script runs of the pages.  A user action requests one    *)
(* run of the page's script; a run that calls st.rerun() ends there and    *)
(* requests the next one.  st.session_state (needs_refresh, active_tab and *)
(* the edit state of the explorer's data_editor) lasts from run to run.    *)
(***************************************************************************)
MaxUserActions == 2

MaxRuns == 5

Pages == {"dashboard", "explorer", "enrichment", "analytics"}

\* 03_Data_Enrichment.py lines 651-656: the tab names the handler switches to
EnrichmentTabs ==
    {"WalkScore Enrichment", "Compass Enrichment", "Cashflow Enrichment"}

\* 02_Property_Explorer.py lines 432 and 439
ViewNames == {"History", "Table View"}

\* The listings the pages show; favorite is stored as 0 or 1.
PageListings ==
    UNION {{[i \in 1..m |->
                [id |-> i, address |-> Addr7A, price |-> Num(100000, 1),
                 favorite |-> f[i], last_updated |-> i]] :
                f \in [1..m -> {Num(0, 1), Num(1, 1)}]} : m \in 1..MaxListings}

InitRerun ==
    /\ frame = EmptyFrame
    /\ hist = <<>>
    /\ listings \in PageListings
    /\ blacklist = {}
    /\ result = NoResult
    /\ openConns = 0
    /\ runner = RunnerIdle
    /\ \E page \in Pages : session = [NoSession EXCEPT !.page = page]

CanAct == session.pending = "none" /\ session.actions < MaxUserActions

\* A widget event: the browser sends it and one script run is requested.
UserAction(s, name) ==
    [s EXCEPT !.pending = "run", !.runs = 0, !.actions = s.actions + 1,
              !.last = name]

\* The user opens another page; the widgets of the page left are not
\* rendered any more and their state is dropped.
SwitchPage ==
    /\ CanAct
    /\ \E page \in Pages \ {session.page} :
        session' = [UserAction(session, "switch") EXCEPT !.page = page,
                                                         !.edit = <<>>]
    /\ UNCHANGED <<frame, hist, listings, blacklist, result, openConns, runner>>

\* The favorite checkbox of one row of the data_editor is flipped
\* (02_Property_Explorer.py lines 366-372).
EditFavorite ==
    /\ CanAct
    /\ session.page = "explorer"
    /\ \E i \in 1..Len(listings) :
        session' = [UserAction(session, "favorite") EXCEPT !.edit =
                        <<[id |-> listings[i].id,
                           favorite |-> listings[i].favorite # Num(1, 1)]>>]
    /\ UNCHANGED <<frame, hist, listings, blacklist, result, openConns, runner>>

\* A dashboard button of the enrichment page: its on_click callback sets
\* active_tab before the run (03_Data_Enrichment.py lines 90-115).
PressDashboardButton ==
    /\ CanAct
    /\ session.page = "enrichment"
    /\ \E tab \in EnrichmentTabs :
        session' = [UserAction(session, "dashboard") EXCEPT !.active_tab = tab]
    /\ UNCHANGED <<frame, hist, listings, blacklist, result, openConns, runner>>

\* "Refresh Page to Show Updated Data" (02_Property_Explorer.py line 419).
PressRefresh ==
    /\ CanAct
    /\ session.page = "explorer"
    /\ session' = [UserAction(session, "refresh") EXCEPT !.trigger = "refresh"]
    /\ UNCHANGED <<frame, hist, listings, blacklist, result, openConns, runner>>

\* "Show History" and "Back to Table View" (lines 429 and 438).
PressHistoryButton ==
    /\ CanAct
    /\ session.page = "explorer"
    /\ \E button \in {"show_history"}
            \cup (IF session.active_tab = "History" THEN {"back"} ELSE {}) :
        session' = [UserAction(session, "history") EXCEPT !.trigger = button]
    /\ UNCHANGED <<frame, hist, listings, blacklist, result, openConns, runner>>

\* A job button of the enrichment page whose job returns code 0: the Gmail
\* and cashflow jobs rerun at once (lines 175-176, 537-538), the Compass
\* loop only sets needs_refresh (line 306).
PressJobButton ==
    /\ CanAct
    /\ session.page = "enrichment"
    /\ \E job \in {"job_ok", "compass_ok"} :
        session' = [UserAction(session, "job") EXCEPT !.trigger = job]
    /\ UNCHANGED <<frame, hist, listings, blacklist, result, openConns, runner>>

\* The end of a script run: the button triggers are reset, and the state of
\* a widget that the run did not render is removed.
EndRun(s, rendered) ==
    [s EXCEPT !.trigger = "none", !.runs = s.runs + 1,
              !.edit = IF rendered THEN s.edit ELSE <<>>,
              !.pending = "none"]

\* st.rerun(): the run ends here and the next one is requested.
Rerun(s) == [s EXCEPT !.pending = "run"]

\* Faulty variant: the handler reruns without removing the flag.
HandleNeedsRefresh_keep(s) == Rerun(s)

\* if st.session_state.get('needs_refresh', False): pop it and rerun
\* (02_Property_Explorer.py lines 20-22, 03_Data_Enrichment.py lines
\* 664-666, 04_Analytics.py lines 12-14).
HandleNeedsRefresh(s) == Rerun([s EXCEPT !.needs_refresh = FALSE])

\* edited_df and display_df differ in the favorite of a row (lines 377-383).
EditDiffers(s) ==
    /\ s.edit # <<>>
    /\ \E i \in 1..Len(listings) :
        /\ listings[i].id = s.edit[1].id
        /\ (listings[i].favorite = Num(1, 1)) # s.edit[1].favorite

\* 02_Property_Explorer.py after the favorite handling: the refresh button
\* (lines 419-421) and the history buttons (lines 429-441).
ExplorerButtons(s) ==
    IF s.trigger = "refresh"
    THEN Rerun([EndRun(s, TRUE) EXCEPT !.needs_refresh = TRUE])
    ELSE IF s.trigger = "show_history"
    THEN [EndRun(s, TRUE) EXCEPT !.active_tab = "History"]
    ELSE IF s.trigger = "back" /\ s.active_tab = "History"
    THEN [EndRun(s, TRUE) EXCEPT !.active_tab = "Table View"]
    ELSE EndRun(s, TRUE)

\* One run of 02_Property_Explorer.py.
ExplorerRun(storeFails) ==
    IF session.needs_refresh
    THEN /\ session' = HandleNeedsRefresh(EndRun(session, FALSE))
         /\ UNCHANGED <<frame, hist, listings, blacklist, result, openConns>>
    ELSE IF EditDiffers(session)
    THEN /\ toggle_favorite(session.edit[1].id, session.edit[1].favorite,
                            storeFails)
         /\ session' =
              IF result'.ret
              THEN \* lines 395-401
                   Rerun([EndRun(session, TRUE) EXCEPT !.needs_refresh = TRUE,
                                                       !.edit = <<>>])
              ELSE \* lines 402-408
                   Rerun([EndRun(session, TRUE) EXCEPT !.needs_refresh = TRUE])
    ELSE /\ session' = ExplorerButtons(session)
         /\ UNCHANGED <<frame, hist, listings, blacklist, result, openConns>>

\* 03_Data_Enrichment.py lines 646-666, the handlers at the end of the page.
EnrichmentHandlers(s) ==
    LET popped == [s EXCEPT !.active_tab = "unset"]
    IN  IF s.active_tab \in EnrichmentTabs
        THEN Rerun([popped EXCEPT !.needs_refresh = TRUE])
        ELSE IF popped.needs_refresh
        THEN HandleNeedsRefresh(popped)
        ELSE popped

\* One run of 03_Data_Enrichment.py.
EnrichmentRun ==
    LET s == EndRun(session, FALSE)
    IN  session' =
          IF session.trigger = "job_ok"
          THEN Rerun([s EXCEPT !.needs_refresh = TRUE])
          ELSE IF session.trigger = "compass_ok"
          THEN EnrichmentHandlers([s EXCEPT !.needs_refresh = TRUE])
          ELSE EnrichmentHandlers(s)

\* One run of 04_Analytics.py.
AnalyticsRun ==
    session' = IF session.needs_refresh
               THEN HandleNeedsRefresh(EndRun(session, FALSE))
               ELSE EndRun(session, FALSE)

\* One run of 01_Dashboard.py, which reads neither flag.
DashboardRun == session' = EndRun(session, FALSE)

ScriptRun ==
    /\ session.pending = "run"
    /\ session.runs < MaxRuns
    /\ \/ /\ session.page = "explorer"
          /\ \E storeFails \in BOOLEAN : ExplorerRun(storeFails)
       \/ /\ session.page = "enrichment"
          /\ EnrichmentRun
          /\ UNCHANGED <<frame, hist, listings, blacklist, result, openConns>>
       \/ /\ session.page = "analytics"
          /\ AnalyticsRun
          /\ UNCHANGED <<frame, hist, listings, blacklist, result, openConns>>
       \/ /\ session.page = "dashboard"
          /\ DashboardRun
          /\ UNCHANGED <<frame, hist, listings, blacklist, result, openConns>>
    /\ UNCHANGED runner

NextRerun ==
    \/ SwitchPage
    \/ EditFavorite
    \/ PressDashboardButton
    \/ PressRefresh
    \/ PressHistoryButton
    \/ PressJobButton
    \/ ScriptRun

\* A requested script run is executed; the user is free not to act.
SpecRerun == InitRerun /\ [][NextRerun]_vars /\ WF_vars(ScriptRun)

(***************************************************************************)
(* Properties of the rerun chain (checked under SpecRerun).                *)
(***************************************************************************)
\* The user actions the rerun claim names.
ChainActions == {"favorite", "dashboard", "refresh", "job"}

ChainStarted == session.pending = "run" /\ session.last \in ChainActions

\* C30 as stated: after one of these actions the page reaches, with no
\* further user input, a run that requests no rerun and ends with
\* needs_refresh and active_tab unset.
C30_Original ==
    ChainStarted ~> (/\ session.pending = "none"
                     /\ ~session.needs_refresh
                     /\ session.active_tab = "unset")

\* C30 as amended: rerun quiescence - after a favorite toggle, a dashboard button, a
\* refresh button or a successful job, the chain of script reruns ends: with
\* no further user input the page reaches a run that requests no rerun and
\* ends with needs_refresh unset and with active_tab either unset or holding
\* a view name of the explorer, which no handler turns into a rerun.
C30_RerunQuiescence ==
    ChainStarted ~> (/\ session.pending = "none"
                     /\ ~session.needs_refresh
                     /\ session.active_tab \in {"unset"} \cup ViewNames)

\* A favorite toggle that toggle_favorite reported as failed has come to
\* rest after three runs, with both flags unset and the edit state dropped.
C30_Witness ==
    /\ session.page = "explorer"
    /\ session.last = "favorite"
    /\ result.op = "toggle_favorite"
    /\ ~result.ret
    /\ session.pending = "none"
    /\ session.runs = 3
    /\ ~session.needs_refresh
    /\ session.active_tab = "unset"
    /\ session.edit = <<>>


====
